---- MODULE Spec2Model ----
(***************************************************************************)
(* Kelly Criterion calculator (src/app.js): the parsers, the Kelly math,   *)
(* update() and the event handlers that run it, as a state machine over    *)
(* the values of the page's input elements and the texts of its output     *)
(* elements.                                                               *)
(*                                                                         *)
(* A text is a sequence of pieces: a typed text and a formatted number are *)
(* sequences of one-character strings, a fixed message is one piece.       *)
(* Numbers are IEEE 754 doubles, as in JavaScript.  A const of the code    *)
(* that is used more than once is a parameter of the operator that models  *)
(* the code after it.                                                      *)
(***************************************************************************)
EXTENDS Integers, Sequences, FiniteSets, TLC

VARIABLES bankrollEl, pEl, pFormatEl, oddsEl, oddsFormatEl, fractionalEl,
          fractionalLabelEl, bOut, qOut, kellyOut, appliedOut, stakeOut,
          growthOut, breakdownEl, fnArgs, fnRet

inputs  == <<bankrollEl, pEl, pFormatEl, oddsEl, oddsFormatEl, fractionalEl>>
outputs == <<fractionalLabelEl, bOut, qOut, kellyOut, appliedOut, stakeOut,
             growthOut, breakdownEl>>
call    == <<fnArgs, fnRet>>
vars    == <<inputs, outputs, call>>

(***************************************************************************)
(* Natural numbers of any size: little-endian sequences of limbs in        *)
(* 0..Base-1 with no leading zero limb (<<>> is 0).  TLC's integers are    *)
(* 32-bit, a double's significand has 53 bits.                             *)
(***************************************************************************)
Pow2(n) == 2^n

\* The number of bits of n >= 0.
RECURSIVE IntBitLen(_)
IntBitLen(n) ==
  IF n >= 256 THEN 8 + IntBitLen(n \div 256)
  ELSE IF n >= 16 THEN 4 + IntBitLen(n \div 16)
  ELSE IF n >= 4 THEN 2 + IntBitLen(n \div 4)
  ELSE IF n >= 2 THEN 2
  ELSE n

\* A limb's product with a limb, plus a carry, fits TLC's integers.
Base     == 2^15
LimbBits == IntBitLen(Base) - 1

RECURSIVE BNorm(_)
BNorm(a) ==
  IF a # <<>> /\ a[Len(a)] = 0 THEN BNorm(SubSeq(a, 1, Len(a) - 1)) ELSE a

RECURSIVE BFromInt(_)
BFromInt(n) == IF n = 0 THEN <<>> ELSE <<n % Base>> \o BFromInt(n \div Base)

Limb(a, i) == IF i <= Len(a) THEN a[i] ELSE 0

\* -1, 0, 1 as a < b, a = b, a > b.
RECURSIVE BCmpFrom(_, _, _)
BCmpFrom(a, b, i) ==
  IF i = 0 THEN 0
  ELSE IF a[i] < b[i] THEN -1
  ELSE IF a[i] > b[i] THEN 1
  ELSE BCmpFrom(a, b, i - 1)

BCmp(a, b) ==
  IF Len(a) < Len(b) THEN -1
  ELSE IF Len(a) > Len(b) THEN 1
  ELSE BCmpFrom(a, b, Len(a))

RECURSIVE BAddFrom(_, _, _, _)
BAddFrom(a, b, i, carry) ==
  IF i > Len(a) /\ i > Len(b)
  THEN IF carry = 0 THEN <<>> ELSE <<carry>>
  ELSE IF carry = 0 /\ i > Len(b) THEN SubSeq(a, i, Len(a))
  ELSE IF carry = 0 /\ i > Len(a) THEN SubSeq(b, i, Len(b))
  ELSE <<(Limb(a, i) + Limb(b, i) + carry) % Base>>
       \o BAddFrom(a, b, i + 1, (Limb(a, i) + Limb(b, i) + carry) \div Base)

BAdd(a, b) == BAddFrom(a, b, 1, 0)

\* a - b for a >= b.
RECURSIVE BSubFrom(_, _, _, _)
BSubFrom(a, b, i, borrow) ==
  IF i > Len(a) THEN <<>>
  ELSE IF a[i] - Limb(b, i) - borrow < 0
  THEN <<a[i] - Limb(b, i) - borrow + Base>> \o BSubFrom(a, b, i + 1, 1)
  ELSE <<a[i] - Limb(b, i) - borrow>> \o BSubFrom(a, b, i + 1, 0)

BSub(a, b) == BNorm(BSubFrom(a, b, 1, 0))

\* a * m for 0 <= m < Base.
RECURSIVE BMulSmallFrom(_, _, _, _)
BMulSmallFrom(a, m, i, carry) ==
  IF i > Len(a) THEN IF carry = 0 THEN <<>> ELSE <<carry>>
  ELSE <<(a[i] * m + carry) % Base>>
       \o BMulSmallFrom(a, m, i + 1, (a[i] * m + carry) \div Base)

BMulSmall(a, m) == IF m = 0 THEN <<>> ELSE BMulSmallFrom(a, m, 1, 0)

\* a * Base^n
BShiftLimbs(a, n) == IF a = <<>> THEN a ELSE [i \in 1..n |-> 0] \o a

RECURSIVE BMulFrom(_, _, _)
BMulFrom(a, b, i) ==
  IF i > Len(b) THEN <<>>
  ELSE BAdd(BMulSmall(a, b[i]), BShiftLimbs(BMulFrom(a, b, i + 1), 1))

BMul(a, b) == BMulFrom(a, b, 1)

\* a * 2^k
BShl(a, k) ==
  BShiftLimbs(IF k % LimbBits = 0 THEN a ELSE BMulSmall(a, Pow2(k % LimbBits)),
              k \div LimbBits)

\* <<floor(a / m), a mod m>> for 0 < m < Base: a's limbs from the top, the
\* quotient's limbs so far in q.
RECURSIVE BDivSmallFrom(_, _, _, _, _)
BDivSmallFrom(a, m, i, rem, q) ==
  IF i = 0 THEN <<BNorm(q), rem>>
  ELSE BDivSmallFrom(a, m, i - 1, (rem * Base + a[i]) % m,
                     <<(rem * Base + a[i]) \div m>> \o q)

BDivSmall(a, m) == BDivSmallFrom(a, m, Len(a), 0, <<>>)

\* floor(a / 2^k)
BShr(a, k) ==
  IF k \div LimbBits >= Len(a) THEN <<>>
  ELSE BDivSmall(SubSeq(a, k \div LimbBits + 1, Len(a)), Pow2(k % LimbBits))[1]

\* -1, 0, 1 as a mod 2^k is below, at, above the half 2^(k-1), for k >= 1:
\* by bit k - 1 of a and the bits below it.
HalfLimb(a, k) == Limb(a, (k - 1) \div LimbBits + 1)

HalfCmp(a, k) ==
  IF (HalfLimb(a, k) \div Pow2((k - 1) % LimbBits)) % 2 = 0 THEN -1
  ELSE IF /\ HalfLimb(a, k) % Pow2((k - 1) % LimbBits) = 0
          /\ \A i \in 1..((k - 1) \div LimbBits) : Limb(a, i) = 0
       THEN 0
  ELSE 1

BBitLen(a) ==
  IF a = <<>> THEN 0 ELSE LimbBits * (Len(a) - 1) + IntBitLen(a[Len(a)])

\* The largest q in 0..Base-1 with b * q <= r, for r < b * Base and b's top
\* limb at least Base / 2: the estimate from the top limbs is at most 2 too big.
RECURSIVE QuotCorrect(_, _, _)
QuotCorrect(r, b, q) ==
  IF BCmp(BMulSmall(b, q), r) > 0 THEN QuotCorrect(r, b, q - 1) ELSE q

QuotEstimate(r, b) ==
  (Limb(r, Len(b) + 1) * Base + Limb(r, Len(b))) \div b[Len(b)]

QuotLimb(r, b) ==
  QuotCorrect(r, b, IF QuotEstimate(r, b) > Base - 1 THEN Base - 1
                    ELSE QuotEstimate(r, b))

\* <<floor(a / b), a mod b>> for such b: long division, a's limbs from the
\* top, the quotient's limbs so far in q.
RECURSIVE BDivModFrom(_, _, _, _, _)
RECURSIVE BDivModLimb(_, _, _, _, _, _)
BDivModFrom(a, b, i, rem, q) ==
  IF i = 0 THEN <<BNorm(q), rem>>
  ELSE BDivModLimb(a, b, i, BNorm(<<a[i]>> \o rem), q,
                   QuotLimb(BNorm(<<a[i]>> \o rem), b))

BDivModLimb(a, b, i, r, q, d) ==
  BDivModFrom(a, b, i - 1, BSub(r, BMulSmall(b, d)), <<d>> \o q)

BDivMod(a, b) == BDivModFrom(a, b, Len(a), <<>>, <<>>)

\* <<floor(n / d), whether d divides n>> for d > 0.
DivExact(qr, zero) == <<qr[1], qr[2] = zero>>

DivSticky(n, d) ==
  IF d = <<1>> THEN <<n, TRUE>>
  ELSE IF Len(d) = 1 THEN DivExact(BDivSmall(n, d[1]), 0)
  ELSE DivExact(BDivMod(BShl(n, LimbBits - IntBitLen(d[Len(d)])),
                        BShl(d, LimbBits - IntBitLen(d[Len(d)]))), <<>>)

(***************************************************************************)
(* IEEE 754 binary64 numbers.  A number is <<s, m, e>>: s * m * 2^e with   *)
(* s in {1, -1} and 2^52 <= m < 2^53, or Zero, or NaN; null is <<>>.       *)
(* Every operation rounds its exact result to the nearest such number,     *)
(* ties to even.  The exponent is not bounded: no text of the model comes  *)
(* near overflow or the subnormal range.  Zero has no sign.                *)
(***************************************************************************)
Precision == 53

null == <<>>
NaN  == <<0, <<>>, 1>>
Zero == <<0, <<>>, 0>>

IsNaN(x)  == x[1] = 0 /\ x[3] = 1
IsZero(x) == x[1] = 0 /\ x[3] = 0

\* s * m * 2^e for m of Precision bits or, after a carry, one more.
Normal(s, m, e) ==
  IF BBitLen(m) > Precision THEN <<s, BShr(m, 1), e + 1>> ELSE <<s, m, e>>

\* m or m + 1, as the bits cut from it compare with a half (c, and exact:
\* nothing else was cut): up above a half, at a half to the even neighbour.
RoundUp(s, m, c, exact, e) ==
  Normal(s, IF c > 0 \/ (c = 0 /\ ~exact) \/ (c = 0 /\ exact /\ m[1] % 2 = 1)
            THEN BAdd(m, <<1>>) ELSE m,
         e)

RoundCut(s, q, exact, e, t) ==
  RoundUp(s, BShr(q, t), HalfCmp(q, t), exact, e + t)

\* The double nearest to s * (q + f) * 2^e for a big natural q of more than
\* Precision bits and a fraction 0 <= f < 1 that is zero iff exact.
RoundQuot(s, q, exact, e) == RoundCut(s, q, exact, e, BBitLen(q) - Precision)

RoundSticky(s, qx, e) == RoundQuot(s, qx[1], qx[2], e)

RoundShifted(s, n, d, e, k) == RoundSticky(s, DivSticky(BShl(n, k), d), e - k)

Max0(i) == IF i < 0 THEN 0 ELSE i

RoundDiv(s, n, d, e) ==
  RoundShifted(s, n, d, e, Max0(Precision + 2 + BBitLen(d) - BBitLen(n)))

\* The number of zero limbs at the low end of a # <<>>.
RECURSIVE ZeroLimbs(_, _)
ZeroLimbs(a, i) == IF a[i] # 0 THEN i - 1 ELSE ZeroLimbs(a, i + 1)

\* The double nearest to s * (n / d) * 2^e for big naturals n, d > 0.
RoundRat(s, n, d, e) ==
  RoundDiv(s, n, SubSeq(d, ZeroLimbs(d, 1) + 1, Len(d)),
           e - LimbBits * ZeroLimbs(d, 1))

RECURSIVE BPow10(_)
BPow10(n) == IF n = 0 THEN <<1>> ELSE BMulSmall(BPow10(n - 1), 10)

\* The double nearest to the decimal n / 10^places.
FromDecimal(n, places) ==
  IF n = 0 THEN Zero
  ELSE RoundRat(IF n < 0 THEN -1 ELSE 1, BFromInt(IF n < 0 THEN -n ELSE n),
                BPow10(places), 0)

Neg(x) == <<-x[1], x[2], x[3]>>

Mul(x, y) ==
  IF IsNaN(x) \/ IsNaN(y) THEN NaN
  ELSE IF IsZero(x) \/ IsZero(y) THEN Zero
  ELSE RoundRat(x[1] * y[1], BMul(x[2], y[2]), <<1>>, x[3] + y[3])

Div(x, y) ==
  IF IsNaN(x) \/ IsNaN(y) \/ IsZero(y) THEN NaN
  ELSE IF IsZero(x) THEN Zero
  ELSE RoundRat(x[1] * y[1], x[2], y[2], x[3] - y[3])

\* -1, 0, 1 as |x| < |y|, |x| = |y|, |x| > |y| (neither zero nor NaN).
CmpMag(x, y) ==
  IF x[3] < y[3] THEN -1 ELSE IF x[3] > y[3] THEN 1 ELSE BCmp(x[2], y[2])

\* sx * a * 2^e + sy * b * 2^e
AddAligned(sx, a, sy, b, e) ==
  IF sx # sy /\ BCmp(a, b) = 0 THEN Zero
  ELSE RoundRat(IF sx = sy \/ BCmp(a, b) > 0 THEN sx ELSE sy,
                IF sx = sy THEN BAdd(a, b)
                ELSE IF BCmp(a, b) > 0 THEN BSub(a, b) ELSE BSub(b, a),
                <<1>>, e)

Add(x, y) ==
  IF IsNaN(x) \/ IsNaN(y) THEN NaN
  ELSE IF IsZero(x) THEN y
  ELSE IF IsZero(y) THEN x
  ELSE LET e == IF x[3] < y[3] THEN x[3] ELSE y[3]
       IN  AddAligned(x[1], BShl(x[2], x[3] - e), y[1], BShl(y[2], y[3] - e), e)

Sub(x, y) == Add(x, Neg(y))

Lt(x, y) ==
  /\ ~IsNaN(x) /\ ~IsNaN(y)
  /\ IF x[1] # y[1] THEN x[1] < y[1]
     ELSE IF x[1] = 0 THEN FALSE
     ELSE x[1] * CmpMag(x, y) < 0

Le(x, y) == ~IsNaN(x) /\ ~IsNaN(y) /\ ~Lt(y, x)

\* Number.isFinite(x): false for null and for NaN.
IsFinite(x) == x # null /\ ~IsNaN(x)

MathMax(x, y) == IF IsNaN(x) \/ IsNaN(y) THEN NaN ELSE IF Lt(x, y) THEN y ELSE x
MathMin(x, y) == IF IsNaN(x) \/ IsNaN(y) THEN NaN ELSE IF Lt(y, x) THEN y ELSE x

\* The double 1 and the literals 100 and 0.9999 of the code.
One == <<1, BShl(<<1>>, Precision - 1), 1 - Precision>>
Hundred  == FromDecimal(100, 0)
MaxFraction == FromDecimal(9999, 4)

(***************************************************************************)
(* Texts                                                                   *)
(***************************************************************************)
Digit == {"0", "1", "2", "3", "4", "5", "6", "7", "8", "9"}

DigitVal(c) ==
  CASE c = "0" -> 0 [] c = "1" -> 1 [] c = "2" -> 2 [] c = "3" -> 3
    [] c = "4" -> 4 [] c = "5" -> 5 [] c = "6" -> 6 [] c = "7" -> 7
    [] c = "8" -> 8 [] c = "9" -> 9

DigitChar(i) == <<"0", "1", "2", "3", "4", "5", "6", "7", "8", "9">>[i + 1]

\* String.prototype.trim
RECURSIVE TrimStart(_)
TrimStart(s) == IF s # <<>> /\ s[1] = " " THEN TrimStart(Tail(s)) ELSE s

RECURSIVE TrimEnd(_)
TrimEnd(s) == IF s # <<>> /\ s[Len(s)] = " "
              THEN TrimEnd(SubSeq(s, 1, Len(s) - 1)) ELSE s

Trim(s) == TrimEnd(TrimStart(s))

\* String.prototype.split(sep) for a one-character separator.
RECURSIVE Split(_, _)
Split(s, sep) ==
  IF \A i \in 1..Len(s) : s[i] # sep THEN <<s>>
  ELSE LET i == CHOOSE j \in 1..Len(s) :
                  s[j] = sep /\ \A h \in 1..(j - 1) : s[h] # sep
       IN  <<SubSeq(s, 1, i - 1)>> \o Split(SubSeq(s, i + 1, Len(s)), sep)

\* The digits of s, read as a decimal integer.
RECURSIVE DigitsValue(_)
DigitsValue(s) ==
  IF s = <<>> THEN 0
  ELSE 10 * DigitsValue(SubSeq(s, 1, Len(s) - 1)) + DigitVal(s[Len(s)])

\* StrUnsignedDecimalLiteral without an exponent: digits with at most one
\* point and at least one digit ("5", "5.", ".5", "2.10").
IsDecimalLiteral(s) ==
  /\ \A i \in 1..Len(s) : s[i] \in Digit \cup {"."}
  /\ Cardinality({i \in 1..Len(s) : s[i] = "."}) <= 1
  /\ \E i \in 1..Len(s) : s[i] \in Digit

\* The number of digits after the point.
Places(s) ==
  LET dots == {i \in 1..Len(s) : s[i] = "."}
  IN  IF dots = {} THEN 0 ELSE Len(s) - (CHOOSE i \in dots : TRUE)

\* StringToNumber of a text without white space around it: the empty text is
\* 0, a signed decimal literal is the double nearest to it, any other text
\* is NaN.  (No text of the model is an exponent, hexadecimal or Infinity
\* form.)
StringToNumber(t) ==
  IF t = <<>> THEN Zero
  ELSE LET body == IF t[1] \in {"+", "-"} THEN Tail(t) ELSE t
       IN  IF ~IsDecimalLiteral(body) THEN NaN
           ELSE FromDecimal((IF t[1] = "-" THEN -1 ELSE 1)
                              * DigitsValue(SelectSeq(body, LAMBDA c : c \in Digit)),
                            Places(body))

\* Number(value) of a text.
Number(s) == StringToNumber(Trim(s))

\* The decimal digits of a big natural before the digits acc.
RECURSIVE BDigitsFrom(_, _)
BDigitsStep(qr, acc) == BDigitsFrom(qr[1], <<DigitChar(qr[2])>> \o acc)
BDigitsFrom(a, acc) ==
  IF a = <<>> THEN acc ELSE BDigitsStep(BDivSmall(a, 10), acc)

BDigits(a) == BDigitsFrom(a, <<>>)

RECURSIVE PadLeft(_, _)
PadLeft(s, n) == IF Len(s) >= n THEN s ELSE PadLeft(<<"0">> \o s, n)

\* The integer nearest to |x| * 10^digits, the larger of two.
FixedInt(x, digits) ==
  IF IsZero(x) THEN <<>>
  ELSE IF x[3] >= 0 THEN BShl(BMul(x[2], BPow10(digits)), x[3])
  ELSE BShr(BAdd(BShl(BMul(x[2], BPow10(digits)), 1), BShl(<<1>>, -x[3])),
            1 - x[3])

\* The digits ds with a sign before them and a point before the last ones.
FixedText(neg, ds, digits) ==
  (IF neg THEN <<"-">> ELSE <<>>)
  \o SubSeq(ds, 1, Len(ds) - digits)
  \o (IF digits = 0 THEN <<>>
      ELSE <<".">> \o SubSeq(ds, Len(ds) - digits + 1, Len(ds)))

\* Number.prototype.toFixed(digits) of a finite x.
toFixed(x, digits) ==
  FixedText(x[1] < 0, PadLeft(BDigits(FixedInt(x, digits)), digits + 1), digits)

(***************************************************************************)
(* Parsing helpers                                                         *)
(***************************************************************************)
\* parseProbability after "const x = Number(value)".
probabilityOf(x, format) ==
  IF ~IsFinite(x) THEN null
  ELSE IF format = "percent" THEN Div(x, Hundred)
  ELSE x

parseProbability(value, format) == probabilityOf(Number(value), format)

\* decimalNetOdds taking the boundary D = 1 for odds.
decimalNetOddsFromOne(D) ==
  IF ~IsFinite(D) \/ Lt(D, One) THEN null ELSE Sub(D, One)

\* decimalNetOdds giving the decimal odds themselves.
decimalNetOddsGross(D) ==
  IF ~IsFinite(D) \/ Le(D, One) THEN null ELSE D

\* parseNetOdds after "const D = Number(s)".
decimalNetOdds(D) ==
  IF ~IsFinite(D) \/ Le(D, One) THEN null ELSE Sub(D, One)

\* ratioNetOdds without the check of the numerator.
ratioNetOddsAnyNumerator(A, B) ==
  IF ~IsFinite(A) \/ ~IsFinite(B) \/ Le(B, Zero) THEN null
  ELSE Div(A, B)

\* parseNetOdds after "const A = ..., const B = ...".
ratioNetOdds(A, B) ==
  IF ~IsFinite(A) \/ ~IsFinite(B) \/ Le(B, Zero) \/ Le(A, Zero) THEN null
  ELSE Div(A, B)

\* parseNetOdds after "const parts = s.split('/')".
fractionalNetOdds(parts) ==
  IF Len(parts) # 2 THEN null
  ELSE ratioNetOdds(Number(Trim(parts[1])), Number(Trim(parts[2])))

\* parseNetOdds after "const s = String(oddsStr).trim()".
netOddsOf(s, format) ==
  IF s = <<>> THEN null
  ELSE IF format = "decimal" THEN decimalNetOdds(Number(s))
  ELSE fractionalNetOdds(Split(s, "/"))

parseNetOdds(oddsStr, format) == netOddsOf(Trim(oddsStr), format)

\* The text of an absent value.
Dash == <<"EM DASH">>

fmt(x, digits) == IF ~IsFinite(x) THEN Dash ELSE toFixed(x, digits)

\* clamp without its upper bound.
clampNoMax(x, min, max) == MathMax(min, x)

clamp(x, min, max) == MathMin(max, MathMax(min, x))

(***************************************************************************)
(* Core Kelly math                                                         *)
(***************************************************************************)
kellyFraction(p, b) == Div(Sub(Mul(b, p), Sub(One, p)), b)

\* growthOf without the check of loseFactor.
growthOfWinOnly(p, q, winFactor, loseFactor) ==
  IF Le(winFactor, Zero) THEN null
  ELSE <<p, winFactor, q, loseFactor>>

\* expectedLogGrowth after its three consts.  Math.log is not computed: a
\* growth is the expression p * Math.log(winFactor) + q * Math.log(loseFactor),
\* kept by its operands.
growthOf(p, q, winFactor, loseFactor) ==
  IF Le(winFactor, Zero) \/ Le(loseFactor, Zero) THEN null
  ELSE <<p, winFactor, q, loseFactor>>

expectedLogGrowth(p, b, f) ==
  growthOf(p, Sub(One, p), Add(One, Mul(f, b)), Sub(One, f))

(***************************************************************************)
(* UI update                                                               *)
(***************************************************************************)
MsgProbabilityMissing == "Probability (p) is missing or not a number."
MsgProbabilityRange   == "Probability (p) must be between 0 and 1 (exclusive)."
MsgOddsInvalid        == "Odds are missing/invalid (check format)."
MsgOddsNotPositive    == "Net odds (b) must be > 0."

\* validate stopping at the first problem.
validateFirst(p, b) ==
  IF p = null \/ ~IsFinite(p) THEN <<MsgProbabilityMissing>>
  ELSE IF Le(p, Zero) \/ Le(One, p) THEN <<MsgProbabilityRange>>
  ELSE IF b = null \/ ~IsFinite(b) THEN <<MsgOddsInvalid>>
  ELSE IF Le(b, Zero) THEN <<MsgOddsNotPositive>>
  ELSE <<>>

\* Validate p and b: every check that fails pushes its problem.
validate(p, b) ==
     (IF p = null \/ ~IsFinite(p) THEN <<MsgProbabilityMissing>> ELSE <<>>)
  \o (IF p # null /\ (Le(p, Zero) \/ Le(One, p))
      THEN <<MsgProbabilityRange>> ELSE <<>>)
  \o (IF b = null \/ ~IsFinite(b) THEN <<MsgOddsInvalid>> ELSE <<>>)
  \o (IF b # null /\ Le(b, Zero) THEN <<MsgOddsNotPositive>> ELSE <<>>)

\* The slider's label.
label(k) == (IF IsNaN(k) THEN <<"NaN">> ELSE toFixed(k, 2))
            \o <<"MULTIPLICATION SIGN">>

\* updateInvalid without the line that clears growthOut.
updateInvalidKeepsGrowth(k, problems) ==
  [fractionalLabelEl |-> label(k),
   bOut       |-> Dash,
   qOut       |-> Dash,
   kellyOut   |-> Dash,
   appliedOut |-> Dash,
   stakeOut   |-> Dash,
   growthOut  |-> <<"g.toFixed(6)">>,
   breakdownEl |-> [header   |-> "Fix these input issues:",
                    problems |-> problems,
                    steps    |-> <<>>,
                    note     |-> FALSE]]

\* If invalid, clear outputs + show error in breakdown.
updateInvalid(k, problems) ==
  [fractionalLabelEl |-> label(k),
   bOut       |-> Dash,
   qOut       |-> Dash,
   kellyOut   |-> Dash,
   appliedOut |-> Dash,
   stakeOut   |-> Dash,
   growthOut  |-> Dash,
   breakdownEl |-> [header   |-> "Fix these input issues:",
                    problems |-> problems,
                    steps    |-> <<>>,
                    note     |-> FALSE]]

\* edgeNote for a negative f* only.
edgeNoteNegativeOnly(fStar) == Lt(fStar, Zero)

\* Extra note about negative edge: whether it is appended.
edgeNote(fStar) == Le(fStar, Zero)

\* Write outputs and build the breakdown.  The breakdown's lines hold each
\* number written in full: a steps entry holds the numbers, note tells
\* whether the extra note about a negative edge is appended.
updateWrite(odds, p, b, k, q, fStar, fAppliedRaw, fApplied, bankroll, stake, g) ==
  [fractionalLabelEl |-> label(k),
   bOut       |-> fmt(b, 4),
   qOut       |-> fmt(q, 4),
   kellyOut   |-> fmt(fStar, 4) \o <<" (raw), ">> \o fmt(MathMax(Zero, fStar), 4)
                  \o <<" (clamped >= 0)">>,
   appliedOut |-> fmt(fApplied, 4),
   stakeOut   |-> IF stake = null THEN <<"Enter bankroll to compute">>
                  ELSE fmt(stake, 2) \o <<" (units)">>,
   growthOut  |-> IF g = null THEN Dash ELSE <<"g.toFixed(6)">>,
   breakdownEl |->
     [header   |-> "Step-by-step:",
      problems |-> <<>>,
      steps    |-> <<[p |-> p, q |-> q, odds |-> odds, b |-> b,
                      fStar |-> fStar, fStarClamped |-> MathMax(Zero, fStar),
                      k |-> k, fAppliedRaw |-> fAppliedRaw,
                      fApplied |-> fApplied,
                      bankroll |-> IF stake = null THEN null ELSE bankroll,
                      stake |-> stake, g |-> g]>>,
      note     |-> edgeNote(fStar)]]

\* updateStake taking a bankroll of 0 for a bankroll.
updateStakeFromZero(odds, p, b, k, q, fStar, fAppliedRaw, fApplied, bankroll) ==
  updateWrite(odds, p, b, k, q, fStar, fAppliedRaw, fApplied, bankroll,
              IF bankroll # null /\ IsFinite(bankroll) /\ Le(Zero, bankroll)
              THEN Mul(bankroll, fApplied) ELSE null,
              expectedLogGrowth(p, b, fApplied))

\* Optional bankroll -> stake, and the expected log growth.
updateStake(odds, p, b, k, q, fStar, fAppliedRaw, fApplied, bankroll) ==
  updateWrite(odds, p, b, k, q, fStar, fAppliedRaw, fApplied, bankroll,
              IF bankroll # null /\ IsFinite(bankroll) /\ Lt(Zero, bankroll)
              THEN Mul(bankroll, fApplied) ELSE null,
              expectedLogGrowth(p, b, fApplied))

\* Clamp the applied fraction to [0, 0.9999] and read the bankroll.
updateApplied(bankrollValue, odds, p, b, k, q, fStar, fAppliedRaw) ==
  updateStake(odds, p, b, k, q, fStar, fAppliedRaw,
              clamp(fAppliedRaw, Zero, MaxFraction),
              IF bankrollValue = <<>> THEN null ELSE Number(bankrollValue))

\* Clamp negative Kelly to 0 and apply the fractional Kelly multiplier k.
updateKelly(bankrollValue, odds, p, b, k, q, fStar) ==
  updateApplied(bankrollValue, odds, p, b, k, q, fStar,
                Mul(k, MathMax(Zero, fStar)))

\* update() after "Read inputs".
updateRead(bankrollValue, odds, p, b, k) ==
  IF Len(validate(p, b)) > 0 THEN updateInvalid(k, validate(p, b))
  ELSE updateKelly(bankrollValue, odds, p, b, k, Sub(One, p),
                   kellyFraction(p, b))

\* update(): what it writes to the output elements, from the values of the
\* input elements.
update(bankrollValue, pValue, pFormat, oddsValue, oddsFormat, fractionalValue) ==
  updateRead(bankrollValue, <<oddsFormat, Trim(oddsValue)>>,
             parseProbability(pValue, pFormat),
             parseNetOdds(oddsValue, oddsFormat),
             Number(fractionalValue))

(***************************************************************************)
(* The values the input elements take                                      *)
(***************************************************************************)
PFormats    == {"decimal", "percent"}
OddsFormats == {"decimal", "fractional"}

PTexts ==
  { <<>>, <<"a", "b", "c">>, <<"1">>, <<"0", ".", "5">>, <<"5", "0">>,
    <<"0", ".", "5", "5">> }

OddsTexts ==
  { <<>>, <<"0", ".", "5">>, <<"2">>, <<"2", ".", "1", "0">>,
    <<"1", "1", "/", "1", "0">>, <<"1", ".", "1">>, <<"1", "/", "1", "0">> }

BankrollTexts ==
  { <<>>, <<"a", "b", "c">>, <<"0">>, <<"-", "5">>, <<"1", "0", "0", "0">> }

\* A range control's value is always the text of a number.
KTexts == { <<"0", ".", "5", "0">>, <<"1">>, <<"8">> }

(***************************************************************************)
(* Events                                                                  *)
(***************************************************************************)
Idle == <<>>

\* The handler's run: the input elements hold the given values and update()
\* writes every output element.
Run(bankrollValue, pValue, pFormat, oddsValue, oddsFormat, fractionalValue) ==
  \E out \in {update(bankrollValue, pValue, pFormat, oddsValue, oddsFormat,
                     fractionalValue)} :
    /\ bankrollEl' = bankrollValue
    /\ pEl' = pValue
    /\ pFormatEl' = pFormat
    /\ oddsEl' = oddsValue
    /\ oddsFormatEl' = oddsFormat
    /\ fractionalEl' = fractionalValue
    /\ fractionalLabelEl' = out.fractionalLabelEl
    /\ bOut' = out.bOut
    /\ qOut' = out.qOut
    /\ kellyOut' = out.kellyOut
    /\ appliedOut' = out.appliedOut
    /\ stakeOut' = out.stakeOut
    /\ growthOut' = out.growthOut
    /\ breakdownEl' = out.breakdownEl
    /\ UNCHANGED call

\* No function is being called on its own: the page is live.
Loaded == Len(fnArgs) = 0

\* The page as loaded: the elements hold their initial values (index.html
\* gives them) and the initial render has run.
Init ==
  \E bk \in BankrollTexts, pv \in PTexts, pf \in PFormats, ov \in OddsTexts,
     of \in OddsFormats, kv \in KTexts :
    \E out \in {update(bk, pv, pf, ov, of, kv)} :
      /\ bankrollEl = bk
      /\ pEl = pv
      /\ pFormatEl = pf
      /\ oddsEl = ov
      /\ oddsFormatEl = of
      /\ fractionalEl = kv
      /\ fractionalLabelEl = out.fractionalLabelEl
      /\ bOut = out.bOut
      /\ qOut = out.qOut
      /\ kellyOut = out.kellyOut
      /\ appliedOut = out.appliedOut
      /\ stakeOut = out.stakeOut
      /\ growthOut = out.growthOut
      /\ breakdownEl = out.breakdownEl
      /\ fnArgs = Idle
      /\ fnRet = Idle

\* An "input" or "change" event of one input element, after the user gave it
\* a value.
BankrollInput ==
  /\ Loaded
  /\ \E v \in BankrollTexts :
       Run(v, pEl, pFormatEl, oddsEl, oddsFormatEl, fractionalEl)

PInput ==
  /\ Loaded
  /\ \E v \in PTexts :
       Run(bankrollEl, v, pFormatEl, oddsEl, oddsFormatEl, fractionalEl)

PFormatInput ==
  /\ Loaded
  /\ \E v \in PFormats :
       Run(bankrollEl, pEl, v, oddsEl, oddsFormatEl, fractionalEl)

OddsInput ==
  /\ Loaded
  /\ \E v \in OddsTexts :
       Run(bankrollEl, pEl, pFormatEl, v, oddsFormatEl, fractionalEl)

OddsFormatInput ==
  /\ Loaded
  /\ \E v \in OddsFormats :
       Run(bankrollEl, pEl, pFormatEl, oddsEl, v, fractionalEl)

FractionalInput ==
  /\ Loaded
  /\ \E v \in KTexts :
       Run(bankrollEl, pEl, pFormatEl, oddsEl, oddsFormatEl, v)

ExampleClick ==
  /\ Loaded
  /\ Run(<<"1", "0", "0", "0">>, <<"0", ".", "5", "5">>, "decimal",
         <<"2", ".", "1", "0">>, "decimal", <<"0", ".", "5", "0">>)

ResetClick ==
  /\ Loaded
  /\ Run(<<>>, <<>>, "decimal", <<>>, "decimal", <<"1">>)

Next ==
  \/ BankrollInput
  \/ PInput
  \/ PFormatInput
  \/ OddsInput
  \/ OddsFormatInput
  \/ FractionalInput
  \/ ExampleClick
  \/ ResetClick

Spec == Init /\ [][Next]_vars

(***************************************************************************)
(* The parsers and the Kelly math called on their own                      *)
(***************************************************************************)
\* The longest odds text and the characters it is made of.
MaxLen == 4
OddsChars == {"0", "1", "2", ".", "/", "-", " ", "a"}
Texts == UNION {[1..n -> OddsChars] : n \in 0..MaxLen}

\* No page: no element holds a value.
Detached ==
  /\ bankrollEl = <<>> /\ pEl = <<>> /\ pFormatEl = <<>>
  /\ oddsEl = <<>> /\ oddsFormatEl = <<>> /\ fractionalEl = <<>>
  /\ fractionalLabelEl = <<>> /\ bOut = <<>> /\ qOut = <<>>
  /\ kellyOut = <<>> /\ appliedOut = <<>> /\ stakeOut = <<>>
  /\ growthOut = <<>> /\ breakdownEl = <<>>

Called(fn) == Len(fnArgs) > 0 /\ fnArgs[1] = fn
Returned(fn) == Called(fn) /\ Len(fnRet) > 0

InitParseNetOdds ==
  /\ Detached
  /\ \E oddsStr \in Texts, format \in OddsFormats :
       fnArgs = <<"parseNetOdds", oddsStr, format>>
  /\ fnRet = Idle

CallParseNetOdds ==
  /\ Called("parseNetOdds")
  /\ Len(fnRet) = 0
  /\ fnRet' = <<parseNetOdds(fnArgs[2], fnArgs[3])>>
  /\ UNCHANGED <<inputs, outputs, fnArgs>>

NextParseNetOdds == CallParseNetOdds

SpecParseNetOdds == InitParseNetOdds /\ [][NextParseNetOdds]_vars

\* b and f on a grid of halves, p on the quarters inside (0, 1): every
\* product and sum of expectedLogGrowth is exact on them.
MaxGrid == 4
Grid == -MaxGrid..MaxGrid
Half(i) == FromDecimal(5 * i, 1)
Quarter(i) == FromDecimal(25 * i, 2)

InitExpectedLogGrowth ==
  /\ Detached
  /\ \E i \in 1..3, j \in Grid, h \in Grid :
       fnArgs = <<"expectedLogGrowth", Quarter(i), Half(j), Half(h)>>
  /\ fnRet = Idle

CallExpectedLogGrowth ==
  /\ Called("expectedLogGrowth")
  /\ Len(fnRet) = 0
  /\ fnRet' = <<expectedLogGrowth(fnArgs[2], fnArgs[3], fnArgs[4])>>
  /\ UNCHANGED <<inputs, outputs, fnArgs>>

\* The page, and expectedLogGrowth called on its own.
InitGrowth == InitExpectedLogGrowth \/ Init

NextGrowth ==
  \/ CallExpectedLogGrowth
  \/ Next

SpecGrowth == InitGrowth /\ [][NextGrowth]_vars

(***************************************************************************)
(* Properties                                                              *)
(***************************************************************************)
\* What the inputs of the page parse to, and whether they pass validation.
InP == parseProbability(pEl, pFormatEl)
InB == parseNetOdds(oddsEl, oddsFormatEl)
InK == Number(fractionalEl)

InputsValid ==
  /\ IsFinite(InP) /\ Lt(Zero, InP) /\ Lt(InP, One)
  /\ IsFinite(InB) /\ Lt(Zero, InB)

Failed    == breakdownEl.header = "Fix these input issues:"
Succeeded == breakdownEl.header = "Step-by-step:"
step      == breakdownEl.steps[1]

\* A text read exactly, as the decimal Numerator(t) / Scale(t).
Unsigned(t) == IF t[1] \in {"+", "-"} THEN Tail(t) ELSE t
IsSignedLiteral(t) == t # <<>> /\ IsDecimalLiteral(Unsigned(t))
Numerator(t) ==
  (IF t[1] = "-" THEN -1 ELSE 1)
  * DigitsValue(SelectSeq(Unsigned(t), LAMBDA c : c \in Digit))
Scale(t) == 10^Places(Unsigned(t))

\* The text denotes a number greater than zero.
IsPositiveText(t) == IsSignedLiteral(Trim(t)) /\ Numerator(Trim(t)) > 0

\* C1: on every run of update() that passes validation with a multiplier
\* k >= 0, whatever the bankroll text, the applied fraction is k * max(0, f*)
\* cut to the closed interval [0, 0.9999], and lies in it.
C1_AppliedFractionInRange ==
  Loaded /\ InputsValid /\ Le(Zero, InK) =>
    /\ Succeeded
    /\ Le(Zero, step.fApplied)
    /\ Le(step.fApplied, FromDecimal(9999, 4))
    /\ LET raw == Mul(InK, MathMax(Zero, kellyFraction(InP, InB)))
       IN  step.fApplied = IF Lt(raw, Zero) THEN Zero
                           ELSE IF Lt(FromDecimal(9999, 4), raw)
                                THEN FromDecimal(9999, 4)
                           ELSE raw
    /\ appliedOut = toFixed(step.fApplied, 4)

\* A run whose k * max(0, f*) exceeds 0.9999 and is cut to it.
C1_Witness ==
  /\ Loaded /\ Succeeded
  /\ Lt(FromDecimal(9999, 4), step.fAppliedRaw)
  /\ step.fApplied = FromDecimal(9999, 4)
  /\ appliedOut = <<"0", ".", "9", "9", "9", "9">>

\* C2: validation never stops at the first problem.  The problem list holds
\* one entry for an invalid probability and one for invalid odds, so both
\* invalid gives both entries (p = "abc" with decimal odds "0.5": exactly
\* two problems), and the list is non-empty exactly when p is not a number
\* strictly inside (0, 1) or the odds do not parse to b > 0.
C2_AllProblemsReported ==
  Loaded =>
    LET pBad == ~(IsFinite(InP) /\ Lt(Zero, InP) /\ Lt(InP, One))
        bBad == ~(IsFinite(InB) /\ Lt(Zero, InB))
        probs == breakdownEl.problems
        pEntries == {i \in 1..Len(probs) :
                       probs[i] \in {MsgProbabilityMissing, MsgProbabilityRange}}
        bEntries == {i \in 1..Len(probs) :
                       probs[i] \in {MsgOddsInvalid, MsgOddsNotPositive}}
    IN  /\ Len(probs) > 0 <=> (pBad \/ bBad)
        /\ Failed <=> Len(probs) > 0
        /\ Cardinality(pEntries) = IF pBad THEN 1 ELSE 0
        /\ Cardinality(bEntries) = IF bBad THEN 1 ELSE 0
        /\ Len(probs) = Cardinality(pEntries) + Cardinality(bEntries)
        /\ (/\ pEl = <<"a", "b", "c">>
            /\ oddsEl = <<"0", ".", "5">>
            /\ oddsFormatEl = "decimal") => Len(probs) = 2

\* The run on p = "abc" and decimal odds "0.5": both problems, in order.
C2_Witness ==
  /\ Loaded
  /\ pEl = <<"a", "b", "c">>
  /\ oddsEl = <<"0", ".", "5">>
  /\ oddsFormatEl = "decimal"
  /\ breakdownEl.problems = <<MsgProbabilityMissing, MsgOddsInvalid>>

\* C3: whenever the inputs do not pass validation, after any sequence of
\* input events and preset clicks, all six numeric outputs hold the absent
\* marker and the breakdown holds no computed value.
C3_FailureClearsOutputs ==
  Loaded /\ ~InputsValid =>
    /\ Failed
    /\ bOut = Dash /\ qOut = Dash /\ kellyOut = Dash
    /\ appliedOut = Dash /\ stakeOut = Dash /\ growthOut = Dash
    /\ breakdownEl.steps = <<>>
    /\ ~breakdownEl.note

\* p = 1 in decimal format, every other input as in the example preset.
C3_Witness ==
  /\ Loaded
  /\ pEl = <<"1">> /\ pFormatEl = "decimal"
  /\ bankrollEl = <<"1", "0", "0", "0">>
  /\ oddsEl = <<"2", ".", "1", "0">> /\ oddsFormatEl = "decimal"
  /\ breakdownEl.problems = <<MsgProbabilityRange>>
  /\ outputs = <<fractionalLabelEl, Dash, Dash, Dash, Dash, Dash, Dash,
                 breakdownEl>>

\* C4: whenever the probability text is empty or not numeric, the problems
\* of update() contain 'Probability (p) is missing or not a number.'
C4_MissingProbabilityReported ==
  Loaded /\ (Trim(pEl) = <<>> \/ ~IsSignedLiteral(Trim(pEl))) =>
    \E i \in 1..Len(breakdownEl.problems) :
      breakdownEl.problems[i] = MsgProbabilityMissing

\* C5: parseNetOdds in decimal format gives D - 1 for every text of a finite
\* number D > 1, and null for D <= 1 (D = 1 included), for a text that is not
\* a number and for an empty or white text.
C5_DecimalOdds ==
  Returned("parseNetOdds") /\ fnArgs[3] = "decimal" =>
    LET t == Trim(fnArgs[2])
    IN  IF IsSignedLiteral(t) /\ Numerator(t) > Scale(t)
        THEN /\ fnRet[1] = Sub(Number(t), One)
             /\ Lt(Zero, fnRet[1])
        ELSE fnRet[1] = null

\* Decimal odds "1.1": the net odds 1.1 - 1, which is not the double 0.1.
C5_Witness ==
  /\ Returned("parseNetOdds")
  /\ fnArgs[3] = "decimal"
  /\ fnArgs[2] = <<"1", ".", "1">>
  /\ fnRet[1] = Sub(FromDecimal(11, 1), One)
  /\ fnRet[1] # FromDecimal(1, 1)

\* C6: parseNetOdds in fractional format gives A / B for every text "A/B" of
\* numbers A > 0 and B > 0, and null for every other text: no '/', more than
\* one '/', a part that is empty or not a number, a numerator or denominator
\* that is zero or negative.
C6_FractionalOdds ==
  Returned("parseNetOdds") /\ fnArgs[3] = "fractional" =>
    LET t == Trim(fnArgs[2])
        slashes == {i \in 1..Len(t) : t[i] = "/"}
        at == CHOOSE i \in slashes : TRUE
        A == SubSeq(t, 1, at - 1)
        B == SubSeq(t, at + 1, Len(t))
    IN  IF Cardinality(slashes) = 1 /\ IsPositiveText(A) /\ IsPositiveText(B)
        THEN /\ fnRet[1] = Div(Number(A), Number(B))
             /\ Lt(Zero, fnRet[1])
        ELSE fnRet[1] = null

\* Fractional odds "1/10": the net odds 0.1.
C6_Witness ==
  /\ Returned("parseNetOdds")
  /\ fnArgs[3] = "fractional"
  /\ fnArgs[2] = <<"1", "/", "1", "0">>
  /\ fnRet[1] = FromDecimal(1, 1)

\* C7: on the success path the stake is computed exactly when the bankroll
\* text is not empty and is a finite number > 0, and then is bankroll *
\* fApplied; for an empty, non-numeric, zero or negative bankroll the stake is
\* marked not computed, which is no numeric stake of 0.
C7_StakeFromBankroll ==
  Loaded /\ InputsValid =>
    /\ Succeeded
    /\ IF bankrollEl # <<>> /\ IsPositiveText(bankrollEl)
       THEN /\ step.stake # null
            /\ step.stake = Mul(Number(bankrollEl), step.fApplied)
            /\ stakeOut = toFixed(step.stake, 2) \o <<" (units)">>
       ELSE /\ step.stake = null
            /\ step.stake # Zero
            /\ stakeOut = <<"Enter bankroll to compute">>
            /\ stakeOut # toFixed(Zero, 2) \o <<" (units)">>

\* The example preset: half Kelly of a bankroll of 1000 is a stake of 70.45.
C7_Witness ==
  /\ Loaded /\ Succeeded
  /\ bankrollEl = <<"1", "0", "0", "0">>
  /\ fractionalEl = <<"0", ".", "5", "0">>
  /\ stakeOut = <<"7", "0", ".", "4", "5", " (units)">>

\* C8: for validated inputs with f* <= 0 and every multiplier k: the clamped
\* f* is 0, the applied fraction is 0, the stake is 0 when a positive bankroll
\* is given, and the note about no positive edge is appended; the note is
\* appended for no input with f* > 0, and with or without it the outputs
\* show the computed numbers.
C8_NoPositiveEdge ==
  Loaded /\ InputsValid =>
    /\ Succeeded
    /\ step.fStar = kellyFraction(InP, InB)
    /\ Le(step.fStar, Zero) =>
         /\ step.fStarClamped = Zero
         /\ step.fApplied = Zero
         /\ IsPositiveText(bankrollEl) =>
              step.stake = Zero /\ stakeOut = <<"0", ".", "0", "0", " (units)">>
         /\ breakdownEl.note
    /\ Lt(Zero, step.fStar) => ~breakdownEl.note
    /\ bOut = toFixed(InB, 4)
    /\ qOut = toFixed(Sub(One, InP), 4)
    /\ kellyOut = toFixed(step.fStar, 4) \o <<" (raw), ">>
                  \o toFixed(step.fStarClamped, 4) \o <<" (clamped >= 0)">>
    /\ appliedOut = toFixed(step.fApplied, 4)

\* p = 0.5 at even odds: f* is exactly 0, and eight times it stakes nothing.
C8_Witness ==
  /\ Loaded /\ Succeeded
  /\ step.fStar = Zero
  /\ fractionalEl = <<"8">>
  /\ bankrollEl = <<"1", "0", "0", "0">>
  /\ step.stake = Zero
  /\ breakdownEl.note

\* The results of an update: the outputs' texts, the problems, the numbers.
Results(out) ==
  [texts    |-> <<out.bOut, out.qOut, out.kellyOut, out.appliedOut,
                  out.stakeOut, out.growthOut>>,
   problems |-> out.breakdownEl.problems,
   numbers  |-> IF Len(out.breakdownEl.steps) = 0 THEN <<>>
                ELSE LET s == out.breakdownEl.steps[1]
                     IN  <<s.b, s.q, s.fStar, s.fStarClamped, s.fApplied,
                           s.stake, s.g>>]

Shown ==
  [fractionalLabelEl |-> fractionalLabelEl, bOut |-> bOut, qOut |-> qOut,
   kellyOut |-> kellyOut, appliedOut |-> appliedOut, stakeOut |-> stakeOut,
   growthOut |-> growthOut, breakdownEl |-> breakdownEl]

\* The percent text v and the decimal text d denote the same probability:
\* v / 100 = d, exactly.
SamePercent(v, d) ==
  /\ IsSignedLiteral(Trim(v)) /\ IsSignedLiteral(Trim(d))
  /\ Numerator(Trim(v)) * Scale(Trim(d))
       = 100 * Numerator(Trim(d)) * Scale(Trim(v))

\* The fractional text fr = "A/B" and the decimal text d denote the same
\* odds: d = 1 + A / B, exactly.
SameOdds(fr, d) ==
  LET t == Trim(fr)
      slashes == {i \in 1..Len(t) : t[i] = "/"}
      at == CHOOSE i \in slashes : TRUE
      A == Trim(SubSeq(t, 1, at - 1))
      B == Trim(SubSeq(t, at + 1, Len(t)))
      D == Trim(d)
  IN  /\ Cardinality(slashes) = 1
      /\ IsSignedLiteral(A) /\ IsSignedLiteral(B) /\ IsSignedLiteral(D)
      /\ Numerator(B) # 0
      /\ (Numerator(D) - Scale(D)) * Numerator(B) * Scale(A)
           = Numerator(A) * Scale(D) * Scale(B)

\* C9 as stated: inputs that denote the same canonical values in different
\* formats give identical results from update(): a probability in percent
\* format as the same probability in decimal format, fractional odds "A/B"
\* as the decimal odds 1 + A/B.
C9_FormatEquivalence ==
  Loaded =>
    /\ \A v \in PTexts :
         pFormatEl = "percent" /\ SamePercent(pEl, v) =>
           Results(update(bankrollEl, v, "decimal", oddsEl, oddsFormatEl,
                          fractionalEl)) = Results(Shown)
    /\ \A o \in OddsTexts :
         oddsFormatEl = "fractional" /\ SameOdds(oddsEl, o) =>
           Results(update(bankrollEl, pEl, pFormatEl, o, "decimal",
                          fractionalEl)) = Results(Shown)

\* C9 as amended: such inputs give identical results whenever the two texts
\* parse to the same double, as 50 percent and "0.5" do, and "11/10" and
\* "2.10".
C9_FormatEquivalenceOfEqualParses ==
  Loaded =>
    /\ \A v \in PTexts :
         /\ pFormatEl = "percent" /\ SamePercent(pEl, v)
         /\ InP = parseProbability(v, "decimal")
         => Results(update(bankrollEl, v, "decimal", oddsEl, oddsFormatEl,
                           fractionalEl)) = Results(Shown)
    /\ \A o \in OddsTexts :
         /\ oddsFormatEl = "fractional" /\ SameOdds(oddsEl, o)
         /\ InB = parseNetOdds(o, "decimal")
         => Results(update(bankrollEl, pEl, pFormatEl, o, "decimal",
                           fractionalEl)) = Results(Shown)
    /\ pFormatEl = "percent" /\ pEl = <<"5", "0">> =>
         InP = parseProbability(<<"0", ".", "5">>, "decimal")
    /\ oddsFormatEl = "fractional" /\ oddsEl = <<"1", "1", "/", "1", "0">> =>
         InB = parseNetOdds(<<"2", ".", "1", "0">>, "decimal")

\* 50 percent at fractional odds "11/10": the numbers of 0.5 at decimal 2.10.
C9_Witness ==
  /\ Loaded /\ Succeeded
  /\ pFormatEl = "percent" /\ pEl = <<"5", "0">>
  /\ oddsFormatEl = "fractional" /\ oddsEl = <<"1", "1", "/", "1", "0">>
  /\ step.p = FromDecimal(5, 1)
  /\ step.b = Sub(FromDecimal(21, 1), One)

\* C10: expectedLogGrowth(p, b, f) returns null exactly when 1 + f*b <= 0 or
\* 1 - f <= 0, and on every success path of update() neither holds: the
\* growth is defined and shown.
C10_GrowthDefined ==
  /\ Returned("expectedLogGrowth") =>
       \A j \in Grid, h \in Grid :
         fnArgs[3] = Half(j) /\ fnArgs[4] = Half(h) =>
           (fnRet[1] = null <=> (4 + h * j <= 0 \/ h >= 2))
  /\ Loaded /\ InputsValid =>
       /\ Succeeded
       /\ step.g # null
       /\ step.g = <<InP, Add(One, Mul(step.fApplied, InB)), Sub(One, InP),
                     Sub(One, step.fApplied)>>
       /\ Lt(Zero, step.g[2]) /\ Lt(Zero, step.g[4])
       /\ growthOut # Dash

\* A run whose applied fraction is cut to 0.9999: the growth is defined.
C10_Witness ==
  /\ Loaded /\ Succeeded
  /\ step.fApplied = FromDecimal(9999, 4)
  /\ step.g # null
  /\ growthOut = <<"g.toFixed(6)">>
====
